---- MODULE Spec2Model ----
(***************************************************************************)
(* Model of .github/scripts/update_readme.py: the registry lookups with    *)
(* their retry loop, the failure classifier, the table cache kept on disk  *)
(* and the aggregator pass of main().                                      *)
(***************************************************************************)
EXTENDS Integers, Sequences, FiniteSets, TLC

VARIABLES
    \* ---- one call of check_cran_archived / get_bbs_status ----
    lkPc,          \* "idle" | "loop" | "done": position in the lookup
    lkKind,        \* "cran" | "bbs": which lookup is running
    lkPkg,         \* its pkg argument
    lkResp,        \* r: the last response received
    lkRetries,     \* the local variable retries
    lkRequests,    \* number of requests.get calls issued by this call
    lkResult,      \* the value returned
    lkExc,         \* the exception raised inside the call, or "none"
    \* ---- calls of check_failure_reason on one log text ----
    clPc,          \* "idle" | "once" | "twice": calls made on clLog so far
    clLog,         \* log_content
    clAnswers,     \* what check_cran_archived returns, call by call
    clReasons,     \* the list the call returned
    clCalls,       \* the names check_cran_archived was called with
    clAnswers2,    \* the answers during the second call on the same text
    clReasons2,    \* the list the second call returned
    \* ---- run artifacts (read-only to the aggregator) ----
    successLog,    \* names in logs/successful-packages.txt
    failLogs,      \* per manifest package: logs/<pkg>/build-fail.log
    \* ---- the external services, as main() sees them ----
    registry,      \* the last response each lookup gets for its requests
    \* ---- persisted cache ----
    succFile,      \* cache/table_succeeded.txt, one row per line
    failFile,      \* cache/table_failed.txt, one row per line
    handledFile,   \* cache/handled_packages.txt, one name per line
    \* ---- one invocation of main() ----
    pc,            \* position of the invocation
    cache,         \* the in-memory cache dict
    successful,    \* the set successful of main()
    failed,        \* the set failed of main()
    todo,          \* what is left of sorted(new_packages)
    tables,        \* the three final tables
    \* ---- history kept for the properties ----
    hist

lookupVars ==
    <<lkPc, lkKind, lkPkg, lkResp, lkRetries, lkRequests, lkResult, lkExc>>
classVars ==
    <<clPc, clLog, clAnswers, clReasons, clCalls, clAnswers2, clReasons2>>
callVars == <<lookupVars, classVars>>
artifactVars == <<successLog, failLogs>>
envVars == <<artifactVars, registry>>
diskVars == <<succFile, failFile, handledFile>>
memVars == <<cache, successful, failed, todo, tables>>
vars == <<callVars, envVars, diskVars, pc, memVars, hist>>

(***************************************************************************)
(* Bounds of the model                                                     *)
(***************************************************************************)
NumPkgs == 2        \* packages of the manifest: 1..NumPkgs
MaxChanges == 1     \* changes of the artifacts and registries in one behaviour
MaxKills == 1       \* terminations of a running invocation in one behaviour

\* The manifest (biocdeps.json); name 0 is a package outside the manifest
\* that the success list or a log may still name.
Manifest == 1..NumPkgs
Names == 0..NumPkgs

(***************************************************************************)
(* RegistryStatusResolver: check_cran_archived and get_bbs_status          *)
(***************************************************************************)
\* `while retries <= 5`
MaxRetries == 5

StatusOk == 200

LookupKinds == {"cran", "bbs"}

\* Page contents that make the two lookups take their different branches.
\* "undecodable" is content on which r.content.decode raises.
CranBodies == {"archived on", "removed on", "plain", "undecodable"}
BbsBodies == {"Status: OK", "no status line", "undecodable"}

Bodies(kind) == IF kind = "cran" THEN CranBodies ELSE BbsBodies

\* What one requests.get can produce: a response, or (raised = TRUE) a
\* requests.exceptions.RequestException.
Responses(kind) ==
    [raised : {FALSE}, status : {StatusOk}, body : Bodies(kind)]
      \cup [raised : {FALSE}, status : {404, 503}, body : {"-"}]
      \cup [raised : {TRUE}, status : {0}, body : {"-"}]

NoResp == [raised |-> FALSE, status |-> 0, body |-> "-"]

\* The value each lookup returns when it finds nothing.
NoAnnotation == "None"
NotFound == "Not Found"

Sentinel(kind) == IF kind = "cran" THEN NoAnnotation ELSE NotFound

\* Lines 27-35: what check_cran_archived returns on the last response r.
CranResult(r) ==
    IF r.status = StatusOk /\ r.body \in {"archived on", "removed on"}
    THEN r.body
    ELSE NoAnnotation

\* Lines 48-59: what get_bbs_status returns on the last response r.
BbsResult(r) ==
    IF r.status # StatusOk THEN NotFound
    ELSE IF r.body = "Status: OK" THEN "[OK]"
    ELSE NotFound

LookupResult(kind, r) == IF kind = "cran" THEN CranResult(r) ELSE BbsResult(r)

\* The loop condition without its test of the status.
RetryAgainWhateverStatus(retries, r) == retries <= MaxRetries

\* The loop condition `retries <= 5 and r.status_code != 200`.
RetryAgain(retries, r) == retries <= MaxRetries /\ r.status # StatusOk

\* `r.content.decode("utf-8")` raises UnicodeDecodeError on such content.
DecodeRaises(r) == r.status = StatusOk /\ r.body = "undecodable"

\* The except clauses with only the request exceptions in them.
CaughtRequestOnly(kind, exc) == exc = "request"

\* The except clauses of the two lookups: line 34 catches
\* (RequestException, UnicodeDecodeError); lines 55 and 57 catch Exception
\* around the decoding and the same pair around the whole body.
Caught(kind, exc) ==
    IF kind = "cran"
    THEN exc \in {"request", "decode"}
    ELSE exc \in {"request", "decode"}

\* Where an exception raised inside a lookup leaves the call: in the except
\* clause, which falls through to the final return, or out of the function.
AfterException(kind, exc) ==
    IF Caught(kind, exc)
    THEN [pc |-> "done", result |-> Sentinel(kind)]
    ELSE [pc |-> "propagated", result |-> "-"]

\* Lines 21-22 / 42-43: the first request of a call.
LookupCall ==
    /\ lkPc \in {"idle", "done"}
    /\ \E kind \in LookupKinds, pkg \in Names :
         \E r \in Responses(kind) :
            /\ lkKind' = kind
            /\ lkPkg' = pkg
            /\ lkRequests' = 1
            /\ lkRetries' = 0
            /\ IF r.raised
               THEN /\ lkPc' = AfterException(kind, "request").pc
                    /\ lkResp' = NoResp
                    /\ lkResult' = AfterException(kind, "request").result
                    /\ lkExc' = "request"
               ELSE /\ lkPc' = "loop"
                    /\ lkResp' = r
                    /\ lkResult' = "-"
                    /\ lkExc' = "none"
    /\ UNCHANGED <<classVars, envVars, diskVars, pc, memVars, hist>>

\* Lines 23-26 / 44-47: one iteration of the retry loop.
LookupRetry ==
    /\ lkPc = "loop"
    /\ RetryAgain(lkRetries, lkResp)
    /\ \E r \in Responses(lkKind) :
         /\ lkRequests' = lkRequests + 1
         /\ IF r.raised
            THEN /\ lkPc' = AfterException(lkKind, "request").pc
                 /\ lkResult' = AfterException(lkKind, "request").result
                 /\ lkExc' = "request"
                 /\ UNCHANGED <<lkResp, lkRetries>>
            ELSE /\ lkResp' = r
                 /\ lkRetries' = lkRetries + 1
                 /\ UNCHANGED <<lkPc, lkResult, lkExc>>
    /\ UNCHANGED <<lkKind, lkPkg, classVars, envVars, diskVars, pc, memVars,
                   hist>>

\* Lines 27-35 / 48-59: the loop is left and the result is computed.
LookupReturn ==
    /\ lkPc = "loop"
    /\ ~RetryAgain(lkRetries, lkResp)
    /\ IF DecodeRaises(lkResp)
       THEN /\ lkPc' = AfterException(lkKind, "decode").pc
            /\ lkResult' = AfterException(lkKind, "decode").result
            /\ lkExc' = "decode"
       ELSE /\ lkPc' = "done"
            /\ lkResult' = LookupResult(lkKind, lkResp)
            /\ lkExc' = "none"
    /\ UNCHANGED <<lkKind, lkPkg, lkResp, lkRetries, lkRequests,
                   classVars, envVars, diskVars, pc, memVars, hist>>

NextLookup == LookupCall \/ LookupRetry \/ LookupReturn


(***************************************************************************)
(* FailureClassifier: check_failure_reason                                 *)
(*                                                                         *)
(* A log is a sequence of lines. A line records what the classifier reads  *)
(* from it: rule is the number (1..9, the order of `patterns`) of the      *)
(* pattern the line matches, or 0 when it matches none; cap is the text of *)
(* the captured group, a package name for rules 1..3; kw tells whether the *)
(* line contains one of error_keywords. A text is a number; Padded(t) is   *)
(* the text t with blanks before and after it.                             *)
(***************************************************************************)
NumRules == 9

Padded(text) == text + 10

\* str.strip(): the text without its leading and trailing whitespace.
strip(text) == text % 10

\* `any(x in msg.lower() for x in ["dependency", "package"])`: true of
\* "Missing R dependency", "Missing dependency" and "Package not found".
NamesPackageDependencyOnly(rule) == rule \in {1, 2}

NamesPackage(rule) == rule \in {1, 2, 3}

Line(rule, cap, kw) == [rule |-> rule, cap |-> cap, kw |-> kw]

Reason(kind, rule, cap, note) ==
    [kind |-> kind, rule |-> rule, cap |-> cap, note |-> note]

UnknownError == Reason("Build failed with unknown error", 0, 0, "-")

\* re.findall(pattern, log_content): the matches of one rule, in text order.
FindAll(rule, log) == SelectSeq(log, LAMBDA l : l.rule = rule)

\* The matches of the first rule that has any, as a loop that stops at
\* the first match would collect them.
RECURSIVE MatchesOfFirstRule(_, _)
MatchesOfFirstRule(rule, log) ==
    IF rule > NumRules THEN <<>>
    ELSE IF FindAll(rule, log) # <<>> THEN FindAll(rule, log)
    ELSE MatchesOfFirstRule(rule + 1, log)

\* The matches in the order the two nested loops visit them.
RECURSIVE MatchesFrom(_, _)
MatchesFrom(rule, log) ==
    IF rule > NumRules THEN <<>>
    ELSE FindAll(rule, log) \o MatchesFrom(rule + 1, log)

\* The archival lookups check_failure_reason makes, as the names looked up.
ArchivalCalls(log) ==
    LET ms == SelectSeq(MatchesFrom(1, log), LAMBDA l : NamesPackage(l.rule))
    IN  [i \in 1..Len(ms) |-> strip(ms[i].cap)]

\* The loop with the annotation put in the place of the reason.
RECURSIVE RuleReasonsReplaced(_, _)
RuleReasonsReplaced(ms, answers) ==
    IF ms = <<>> THEN <<>>
    ELSE LET m == Head(ms)
             reason == Reason("rule", m.rule, m.cap, "-")
         IN  IF NamesPackage(m.rule)
             THEN (IF Head(answers) # NoAnnotation
                   THEN <<Reason("cran", 0, strip(m.cap), Head(answers))>>
                   ELSE <<reason>>)
                    \o RuleReasonsReplaced(Tail(ms), Tail(answers))
             ELSE <<reason>> \o RuleReasonsReplaced(Tail(ms), answers)

\* Lines 77-86. answers[i] is what the i-th call of check_cran_archived
\* returns.
RECURSIVE RuleReasons(_, _)
RuleReasons(ms, answers) ==
    IF ms = <<>> THEN <<>>
    ELSE LET m == Head(ms)
             reason == Reason("rule", m.rule, m.cap, "-")
         IN  IF NamesPackage(m.rule)
             THEN <<reason>>
                    \o (IF Head(answers) # NoAnnotation
                        THEN <<Reason("cran", 0, strip(m.cap), Head(answers))>>
                        ELSE <<>>)
                    \o RuleReasons(Tail(ms), Tail(answers))
             ELSE <<reason>> \o RuleReasons(Tail(ms), answers)

\* The scan without its `break`: every line that contains a keyword.
RECURSIVE EveryKeywordLine(_)
EveryKeywordLine(log) ==
    IF log = <<>> THEN <<>>
    ELSE (IF Head(log).kw
          THEN <<Reason("line", 0, strip(Head(log).cap), "-")>>
          ELSE <<>>) \o EveryKeywordLine(Tail(log))

\* Lines 96-99: the first line that contains an error keyword, stripped.
RECURSIVE FirstKeywordLine(_)
FirstKeywordLine(log) ==
    IF log = <<>> THEN <<>>
    ELSE IF Head(log).kw
         THEN <<Reason("line", 0, strip(Head(log).cap), "-")>>
    ELSE FirstKeywordLine(Tail(log))

\* The classifier without lines 101-102.
check_failure_reasonNoDefault(log, answers) ==
    LET reasons == RuleReasons(MatchesFrom(1, log), answers)
    IN  IF reasons # <<>> THEN reasons ELSE FirstKeywordLine(log)

\* check_failure_reason(log_content), lines 61-104.
check_failure_reason(log, answers) ==
    LET reasons == RuleReasons(MatchesFrom(1, log), answers)
    IN  IF reasons # <<>> THEN reasons
        ELSE IF FirstKeywordLine(log) # <<>> THEN FirstKeywordLine(log)
        ELSE <<UnknownError>>

(***************************************************************************)
(* Calls of the classifier on bounded log texts                            *)
(***************************************************************************)
MaxLogLen == 3      \* lines of a log text

\* The lines of these texts: lines that match no rule, with or without a
\* keyword and with or without blanks around them; lines that match the
\* last rule whose category names a package (3), the first one whose
\* category does not (4), and the last rule (9).
LogLines ==
    {Line(0, text, kw) : text \in {0, 1, Padded(0)}, kw \in BOOLEAN}
      \cup {Line(rule, name, TRUE) : rule \in {3, 4, 9}, name \in {0, 1}}

LogTexts == UNION {[1..n -> LogLines] : n \in 0..MaxLogLen}

\* What a call of check_cran_archived can return.
CranResults == {CranResult(r) : r \in Responses("cran")}

\* One answer for each archival lookup the classifier makes on a log.
AnswersFor(log) == [1..Len(ArchivalCalls(log)) -> CranResults]

InitClassifier ==
    /\ clPc = "idle"
    /\ clLog = <<>>
    /\ clAnswers = <<>>
    /\ clReasons = <<>>
    /\ clCalls = <<>>
    /\ clAnswers2 = <<>>
    /\ clReasons2 = <<>>

\* A call of check_failure_reason(log_content).
Classify ==
    /\ clPc = "idle"
    /\ clReasons' = check_failure_reason(clLog, clAnswers)
    /\ clCalls' = ArchivalCalls(clLog)
    /\ clPc' = "once"
    /\ UNCHANGED <<clLog, clAnswers, clAnswers2, clReasons2, lookupVars,
                   envVars, diskVars, pc, memVars, hist>>

\* A second call on the same text, while the registry answers its own way.
ClassifyAgain ==
    /\ clPc = "once"
    /\ \E answers \in AnswersFor(clLog) :
         /\ clAnswers2' = answers
         /\ clReasons2' = check_failure_reason(clLog, answers)
    /\ clPc' = "twice"
    /\ UNCHANGED <<clLog, clAnswers, clReasons, clCalls, lookupVars,
                   envVars, diskVars, pc, memVars, hist>>

NextClassifier == Classify \/ ClassifyAgain


(***************************************************************************)
(* Run artifacts                                                           *)
(***************************************************************************)
\* The logs the builds of this model write: an empty log, and a log whose
\* one line reports package 1 as an unavailable dependency (rule 2).
RunLogs == {<<>>, <<Line(2, 1, TRUE)>>}

\* logs/<pkg>/build-fail.log: absent, present but raising on read (not
\* UTF-8, not readable), or present with a text.
LogFiles ==
    [state : {"absent", "unreadable"}, text : {<<>>}]
      \cup [state : {"ok"}, text : RunLogs]

(***************************************************************************)
(* RunCache: load_table_cache and save_table_cache                         *)
(***************************************************************************)
\* sorted(S), as a sequence.
RECURSIVE sorted(_)
sorted(S) ==
    IF S = {} THEN <<>>
    ELSE LET m == CHOOSE x \in S : \A y \in S : x <= y
         IN  <<m>> \o sorted(S \ {m})

Range(seq) == {seq[i] : i \in 1..Len(seq)}

\* Mutant of LoadRows: the cached rows are not read back.
LoadRowsNone(file) == <<>>

\* Lines 142-152: one row per non-blank line, eval(line.strip()) of the
\* line save_table_cache wrote; a file that does not exist reads as no row.
\* A row is a list of str, and its repr is one line (a newline inside the
\* joined reasons is written escaped) that eval reads back as the same
\* list, so a file is modelled as the sequence of its rows.
LoadRows(file) == file

\* Mutant of LoadHandled: handled_packages.txt is not read back.
LoadHandledNone(file) == {}

\* Lines 154-156: the set of the names in the file.
LoadHandled(file) == Range(file)

\* Lines 167-173: `for entry in cache[...]: f.write(f"{entry}\n")`.
SaveRows(entries) == entries

\* Lines 175-177: `for pkg in sorted(cache["handled_packages"])`.
SaveHandled(handled) == sorted(handled)

load_table_cache ==
    [succeeded |-> LoadRows(succFile),
     failed |-> LoadRows(failFile),
     handled_packages |-> LoadHandled(handledFile)]

EmptyCache == [succeeded |-> <<>>, failed |-> <<>>, handled_packages |-> {}]
NoTables == [succeeded |-> <<>>, failed |-> <<>>, unprocessed |-> <<>>]

Disk == [succeeded |-> succFile, failed |-> failFile, handled |-> handledFile]

(***************************************************************************)
(* ReportAggregator: main                                                  *)
(***************************************************************************)
\* Positions at which no invocation is running.
Stopped == {"init", "done", "aborted", "killed"}

\* Line 199: the manifest packages that have a failure log.
FailedSet == {p \in Manifest : failLogs[p].state # "absent"}

\* Mutant of NewPackages: the handled names are not taken out.
NewPackagesNoGate(succ, fail, handled) == succ \cup fail

\* Line 202 with the failed packages left out.
NewPackagesSuccessOnly(succ, fail, handled) == succ \ handled

\* Line 202.
NewPackages(succ, fail, handled) == (succ \cup fail) \ handled

\* The two tests of the loop body in the other order: the failure log is
\* looked at first.
BranchFailedFirst(pkg, succ, fail) ==
    IF pkg \in fail THEN "failed"
    ELSE IF pkg \in succ THEN "succeeded"
    ELSE "none"

\* Lines 210 and 218: `if pkg in successful:` ... `elif pkg in failed:`.
Branch(pkg, succ, fail) ==
    IF pkg \in succ THEN "succeeded"
    ELSE IF pkg \in fail THEN "failed"
    ELSE "none"

\* Lines 215 and 226: the rows. pkg_link and log_link are made of the name.
SucceededRow(pkg, bbs) ==
    [pkg |-> pkg, status |-> "Built", bbs |-> bbs]
FailedRow(pkg, bbs, reasons) ==
    [pkg |-> pkg, status |-> "Failed", bbs |-> bbs, reasons |-> reasons]

\* The registries as an invocation meets them: for each lookup, the
\* response its requests end with. The build farm knows the package or is
\* down; the package registry reports the package archived or not. They
\* change between invocations (RegistryChanges); the retry loop itself is
\* followed request by request in SpecLookup.
RegistryStates ==
    [bbs : {[raised |-> FALSE, status |-> StatusOk, body |-> "Status: OK"],
            [raised |-> FALSE, status |-> 503, body |-> "-"]},
     cran : {[raised |-> FALSE, status |-> StatusOk, body |-> "archived on"],
             [raised |-> FALSE, status |-> StatusOk, body |-> "plain"]}]

\* get_bbs_status(pkg, bioc_version) and check_cran_archived(name), as
\* main() and check_failure_reason get them.
get_bbs_status == BbsResult(registry.bbs)
check_cran_archived == CranResult(registry.cran)

\* Lines 215-216: the row of a successful package is appended and the name
\* is added to the handled set.
HandleSucceeded(c, pkg, bbs) ==
    [c EXCEPT !.succeeded = Append(@, SucceededRow(pkg, bbs)),
              !.handled_packages = @ \cup {pkg}]

\* Mutant of HandleFailed: the row is appended, the name is not recorded.
HandleFailedUnmarked(c, pkg, bbs, reasons) ==
    [c EXCEPT !.failed = Append(@, FailedRow(pkg, bbs, reasons))]

\* Lines 226-227: the same for a failed package.
HandleFailed(c, pkg, bbs, reasons) ==
    [c EXCEPT !.failed = Append(@, FailedRow(pkg, bbs, reasons)),
              !.handled_packages = @ \cup {pkg}]

\* A call the invocation makes: the function, its argument and the package
\* of the loop iteration that makes it.
Call(fn, arg, for) == [fn |-> fn, arg |-> arg, for |-> for]

InitLookup ==
    /\ lkPc = "idle"
    /\ lkKind = "cran"
    /\ lkPkg = 0
    /\ lkResp = NoResp
    /\ lkRetries = 0
    /\ lkRequests = 0
    /\ lkResult = "-"
    /\ lkExc = "none"

InitRun ==
    /\ succFile = <<>>
    /\ failFile = <<>>
    /\ handledFile = <<>>
    /\ pc = "init"
    /\ cache = EmptyCache
    /\ successful = {}
    /\ failed = {}
    /\ todo = <<>>
    /\ tables = NoTables
    /\ hist = [changes |-> 0, kills |-> 0,
               handled0 |-> {}, disk0 |-> Disk, again |-> FALSE,
               calls |-> {}, processed |-> {}, pending |-> {},
               lost |-> {}, relost |-> {},
               fresh |-> FALSE, killedAt |-> "-"]

\* A run directory with any artifacts and an empty cache.
Init ==
    /\ InitLookup
    /\ InitClassifier
    /\ successLog \in SUBSET Names
    /\ failLogs \in [Manifest -> LogFiles]
    /\ registry \in RegistryStates
    /\ InitRun

\* The builder adds a name to successful-packages.txt. The artifacts change
\* while no invocation runs.
BuildSucceeds ==
    /\ pc \in Stopped
    /\ hist.changes < MaxChanges
    /\ \E n \in Names \ successLog : successLog' = successLog \cup {n}
    /\ hist' = [hist EXCEPT !.changes = @ + 1, !.fresh = FALSE]
    /\ UNCHANGED <<callVars, failLogs, registry, diskVars, pc, memVars>>

\* The builder writes, rewrites or removes a build-fail.log.
BuildFails ==
    /\ pc \in Stopped
    /\ hist.changes < MaxChanges
    /\ \E p \in Manifest : \E f \in LogFiles \ {failLogs[p]} :
         failLogs' = [failLogs EXCEPT ![p] = f]
    /\ hist' = [hist EXCEPT !.changes = @ + 1, !.fresh = FALSE]
    /\ UNCHANGED <<callVars, successLog, registry, diskVars, pc, memVars>>

\* The registries change what they answer.
RegistryChanges ==
    /\ pc \in Stopped
    /\ hist.changes < MaxChanges
    /\ registry' \in RegistryStates \ {registry}
    /\ hist' = [hist EXCEPT !.changes = @ + 1]
    /\ UNCHANGED <<callVars, artifactVars, diskVars, pc, memVars>>

\* Lines 183-203: main() up to the loop.
Load ==
    /\ pc \in Stopped
    /\ cache' = load_table_cache
    /\ successful' = successLog
    /\ failed' = FailedSet
    /\ todo' = sorted(NewPackages(successLog, FailedSet,
                                  load_table_cache.handled_packages))
    /\ tables' = NoTables
    /\ pc' = "loop"
    /\ hist' = [hist EXCEPT !.handled0 = load_table_cache.handled_packages,
                            !.disk0 = Disk,
                            !.again = hist.fresh,
                            !.fresh = FALSE,
                            !.calls = {},
                            !.processed = {},
                            !.pending = {},
                            !.relost = hist.lost,
                            !.lost = {},
                            !.killedAt = "-"]
    /\ UNCHANGED <<callVars, envVars, diskVars>>

\* The process ends: its memory is gone.
Exit ==
    /\ cache' = EmptyCache
    /\ successful' = {}
    /\ failed' = {}
    /\ todo' = <<>>

\* Mutant of ProcessSucceeded: the name is also appended to
\* handled_packages.txt at once, an incremental save.
ProcessSucceededAppending ==
    /\ pc = "loop"
    /\ todo # <<>>
    /\ Branch(Head(todo), successful, failed) = "succeeded"
    /\ LET pkg == Head(todo)
           bbs == get_bbs_status
       IN
         /\ cache' = HandleSucceeded(cache, pkg, bbs)
         /\ handledFile' = Append(handledFile, pkg)
         /\ hist' = [hist EXCEPT
                        !.calls = @ \cup {Call("get_bbs_status", pkg, pkg)},
                        !.processed = @ \cup {pkg}]
    /\ todo' = Tail(todo)
    /\ UNCHANGED <<callVars, envVars, succFile, failFile, pc, successful,
                   failed, tables>>

\* Lines 210-216: one iteration of the loop, for a successful package.
ProcessSucceeded ==
    /\ pc = "loop"
    /\ todo # <<>>
    /\ Branch(Head(todo), successful, failed) = "succeeded"
    /\ LET pkg == Head(todo)
           bbs == get_bbs_status
       IN
         /\ cache' = HandleSucceeded(cache, pkg, bbs)
         /\ hist' = [hist EXCEPT
                        !.calls = @ \cup {Call("get_bbs_status", pkg, pkg)},
                        !.processed = @ \cup {pkg}]
    /\ todo' = Tail(todo)
    /\ UNCHANGED <<callVars, envVars, diskVars, pc, successful, failed,
                   tables>>

\* Lines 218-227: one iteration of the loop, for a failed package.
ProcessFailed ==
    /\ pc = "loop"
    /\ todo # <<>>
    /\ Branch(Head(todo), successful, failed) = "failed"
    /\ failLogs[Head(todo)].state = "ok"
    /\ LET pkg == Head(todo)
           log == failLogs[pkg].text
           asked == ArchivalCalls(log)
           bbs == get_bbs_status
           answers == [i \in 1..Len(asked) |-> check_cran_archived]
       IN
         /\ cache' = HandleFailed(cache, pkg, bbs,
                                  check_failure_reason(log, answers))
         /\ hist' = [hist EXCEPT
                        !.calls = @ \cup {Call("get_bbs_status", pkg, pkg),
                                          Call("check_failure_reason", pkg, pkg)}
                                    \cup {Call("check_cran_archived", asked[i], pkg) :
                                            i \in 1..Len(asked)},
                        !.processed = @ \cup {pkg}]
    /\ todo' = Tail(todo)
    /\ UNCHANGED <<callVars, envVars, diskVars, pc, successful, failed,
                   tables>>

\* Lines 222-223: open() or f.read() raises; nothing in main() catches it,
\* and the invocation ends there.
ReadRaises ==
    /\ pc = "loop"
    /\ todo # <<>>
    /\ Branch(Head(todo), successful, failed) = "failed"
    /\ failLogs[Head(todo)].state # "ok"
    /\ pc' = "aborted"
    /\ hist' = [hist EXCEPT !.lost = hist.processed,
                            !.pending = Range(Tail(todo))]
    /\ Exit
    /\ UNCHANGED <<callVars, envVars, diskVars, tables>>

\* Line 167: open(succeeded_file, 'w') truncates the file.
OpenSucceeded ==
    /\ pc = "loop"
    /\ todo = <<>>
    /\ succFile' = <<>>
    /\ pc' = "write_succeeded"
    /\ UNCHANGED <<callVars, envVars, failFile, handledFile, memVars, hist>>

\* Lines 168-169, and the file is closed.
WriteSucceeded ==
    /\ pc = "write_succeeded"
    /\ succFile' = SaveRows(cache.succeeded)
    /\ pc' = "open_failed"
    /\ UNCHANGED <<callVars, envVars, failFile, handledFile, memVars, hist>>

\* Line 171.
OpenFailed ==
    /\ pc = "open_failed"
    /\ failFile' = <<>>
    /\ pc' = "write_failed"
    /\ UNCHANGED <<callVars, envVars, succFile, handledFile, memVars, hist>>

\* Lines 172-173.
WriteFailed ==
    /\ pc = "write_failed"
    /\ failFile' = SaveRows(cache.failed)
    /\ pc' = "open_handled"
    /\ UNCHANGED <<callVars, envVars, succFile, handledFile, memVars, hist>>

\* Line 175.
OpenHandled ==
    /\ pc = "open_handled"
    /\ handledFile' = <<>>
    /\ pc' = "write_handled"
    /\ UNCHANGED <<callVars, envVars, succFile, failFile, memVars, hist>>

\* Lines 176-177.
WriteHandled ==
    /\ pc = "write_handled"
    /\ handledFile' = SaveHandled(cache.handled_packages)
    /\ pc' = "tables"
    /\ UNCHANGED <<callVars, envVars, succFile, failFile, memVars, hist>>

UnprocessedRow(pkg) == [pkg |-> pkg, status |-> "Unprocessed"]

\* Mutant of Unprocessed: every manifest package is listed.
UnprocessedAll(handled) ==
    LET left == sorted(Manifest)
    IN  [i \in 1..Len(left) |-> UnprocessedRow(left[i])]

\* Lines 240-244: the manifest packages that are not handled, sorted.
Unprocessed(handled) ==
    LET left == sorted({p \in Manifest : p \notin handled})
    IN  [i \in 1..Len(left) |-> UnprocessedRow(left[i])]

\* Lines 233-244: the three final tables; the invocation ends.
BuildTables ==
    /\ pc = "tables"
    /\ tables' = [succeeded |-> cache.succeeded,
                  failed |-> cache.failed,
                  unprocessed |-> Unprocessed(cache.handled_packages)]
    /\ pc' = "done"
    /\ hist' = [hist EXCEPT !.fresh = TRUE]
    /\ Exit
    /\ UNCHANGED <<callVars, envVars, diskVars>>

\* The process is terminated while it runs.
Kill ==
    /\ pc \notin Stopped
    /\ hist.kills < MaxKills
    /\ pc' = "killed"
    /\ hist' = [hist EXCEPT !.killedAt = pc, !.kills = @ + 1]
    /\ Exit
    /\ UNCHANGED <<callVars, envVars, diskVars, tables>>

Save ==
    \/ OpenSucceeded \/ WriteSucceeded
    \/ OpenFailed \/ WriteFailed
    \/ OpenHandled \/ WriteHandled

Pass ==
    \/ Load
    \/ ProcessSucceeded \/ ProcessFailed \/ ReadRaises
    \/ Save
    \/ BuildTables

Next == BuildSucceeds \/ BuildFails \/ RegistryChanges \/ Pass

NextCrash == Pass \/ Kill

\* Invocations that run to their end, or to an uncaught exception, with
\* the builder and the registries changing between them.
Spec == Init /\ [][Next]_vars

\* Invocations on unchanged run artifacts, each of which can also be
\* terminated at any point.
SpecCrash == Init /\ [][NextCrash]_vars

\* Calls of the two lookups, request by request.
InitNoRun ==
    /\ InitLookup
    /\ InitClassifier
    /\ successLog = {}
    /\ failLogs = [p \in Manifest |-> [state |-> "absent", text |-> <<>>]]
    /\ registry \in RegistryStates
    /\ InitRun

SpecLookup == InitNoRun /\ [][NextLookup]_vars

\* A call that was made goes on: the body of a lookup is sequential code,
\* each requests.get has timeout=10 and each sleep is 2 seconds, so a step
\* of the loop or the return that is due is taken. New calls are up to the
\* caller.
SpecLookupFair ==
    /\ InitNoRun
    /\ [][NextLookup]_vars
    /\ WF_vars(LookupRetry)
    /\ WF_vars(LookupReturn)

\* Calls of the classifier on every log text of the bound, with every
\* series of answers of the archival lookup.
InitLogText ==
    /\ InitLookup
    /\ successLog = {}
    /\ failLogs = [p \in Manifest |-> [state |-> "absent", text |-> <<>>]]
    /\ registry = [bbs |-> NoResp, cran |-> NoResp]
    /\ InitRun
    /\ clPc = "idle"
    /\ clLog \in LogTexts
    /\ clAnswers \in AnswersFor(clLog)
    /\ clReasons = <<>>
    /\ clCalls = <<>>
    /\ clAnswers2 = <<>>
    /\ clReasons2 = <<>>

SpecClassifier == InitLogText /\ [][NextClassifier]_vars


(***************************************************************************)
(* Properties                                                              *)
(***************************************************************************)
IsPrefix(a, b) == Len(a) <= Len(b) /\ \A i \in 1..Len(a) : a[i] = b[i]

\* Number of rows of a table that belong to package p.
RowsOf(p, table) == Cardinality({i \in 1..Len(table) : table[i].pkg = p})

\* C1: one call of a lookup issues at most 6 HTTP requests (the first
\* attempt plus the retries).
C1_AtMostSixRequests == lkRequests <= 6

\* What the retry loop of the code does allow: the first request and one
\* more for each value 0..MaxRetries of retries.
C1_RequestsOfTheCode == lkRequests <= MaxRetries + 2

\* C2: after a completed pass every manifest package appears in exactly
\* one of the tables succeeded, failed, unprocessed, and once.
C2_PartitionComplete ==
    pc = "done" =>
        \A p \in Manifest :
            RowsOf(p, tables.succeeded) + RowsOf(p, tables.failed)
              + RowsOf(p, tables.unprocessed) = 1

C2_Witness ==
    /\ pc = "done"
    /\ \E p, q \in Manifest :
         /\ RowsOf(p, tables.failed) = 1
         /\ RowsOf(q, tables.unprocessed) = 1
    /\ tables.succeeded # <<>>

\* C3: a pass that follows a completed pass on unchanged run artifacts
\* processes no package and leaves the three cache files as they were.
C3_Idempotent ==
    (pc = "done" /\ hist.again) =>
        /\ hist.processed = {}
        /\ hist.calls = {}
        /\ Disk = hist.disk0

C3_Witness ==
    /\ pc = "done"
    /\ hist.again
    /\ succFile # <<>>
    /\ failFile # <<>>

\* C4 as claimed: in a pass, no call of the classifier or of a registry
\* lookup has as its argument a name of the handled set loaded at the
\* start of the pass.
C4_NoCallNamesHandled ==
    \A c \in hist.calls : c.arg \notin hist.handled0

\* C4 as amended: no iteration of the loop is made for a handled name,
\* so neither the classifier nor the build-status lookup is called for it;
\* a handled name is the argument of an archival lookup only, made while
\* another, new package is classified.
C4_HandledNotReprocessed ==
    \A c \in hist.calls :
        /\ c.for \notin hist.handled0
        /\ c.arg \in hist.handled0 =>
              c.fn = "check_cran_archived" /\ c.for # c.arg

\* A completed pass that classified a new package whose log names a
\* package handled before.
C4_Witness ==
    /\ pc = "done"
    /\ hist.processed # {}
    /\ \E c \in hist.calls : c.arg \in hist.handled0

\* C5: from an empty cache on, a name is in the handled set exactly when
\* the cache holds a row for it: in memory after each package of the loop,
\* on disk whenever no save is under way.
Consistent(succ, fail, handled) ==
    \A n \in Names : n \in handled <=> RowsOf(n, succ) + RowsOf(n, fail) >= 1

C5_CacheConsistent ==
    /\ pc = "loop" =>
         Consistent(cache.succeeded, cache.failed, cache.handled_packages)
    /\ pc \in Stopped \cup {"loop", "tables"} =>
         Consistent(succFile, failFile, LoadHandled(handledFile))

C5_Witness ==
    /\ pc = "done"
    /\ succFile # <<>>
    /\ failFile # <<>>
    /\ Cardinality(LoadHandled(handledFile)) >= 2
    /\ hist.processed # {}
    /\ hist.handled0 # {}

\* C6: after a terminated invocation, a complete invocation on unchanged
\* artifacts ends with exactly one row for every package that is in the
\* success list or has a failure log, and with exactly those names handled.
ExactCache ==
    LET due == successLog \cup FailedSet IN
    /\ LoadHandled(handledFile) = due
    /\ \A n \in Names :
         RowsOf(n, succFile) + RowsOf(n, failFile) = IF n \in due THEN 1 ELSE 0

C6_RerunAfterCrashIsSafe == pc = "done" => ExactCache

\* C7: while an invocation has not begun to save, and when it stops before
\* that, the three cache files are what they were when it started.
C7_NothingWrittenBeforeSave ==
    (\/ pc = "loop"
     \/ pc = "aborted"
     \/ pc = "killed" /\ hist.killedAt = "loop") =>
        Disk = hist.disk0

C7_Witness ==
    /\ pc = "killed"
    /\ hist.killedAt = "loop"
    /\ Cardinality(hist.processed) >= 2

\* C8: when reading the log of a failed package raises, the pass still
\* processes every other new package and saves the cache.
C8_ReadFailureIsLocal ==
    pc = "aborted" =>
        /\ hist.pending = {}
        /\ hist.processed \subseteq LoadHandled(handledFile)

\* C9: a package processed in a pass in which a later package then failed
\* is not processed again by the next invocation.
C9_EarlierEntriesKept ==
    \A c \in hist.calls : c.for \notin hist.relost

\* C10: a completed invocation removes no name from the handled set,
\* leaves every row of the cache unchanged and at its position, and
\* appends rows for newly handled packages only.
NewRows(old, new) == {new[i].pkg : i \in (Len(old) + 1)..Len(new)}

C10_AppendOnly ==
    pc = "done" =>
        /\ LoadHandled(hist.disk0.handled) \subseteq LoadHandled(handledFile)
        /\ IsPrefix(hist.disk0.succeeded, succFile)
        /\ IsPrefix(hist.disk0.failed, failFile)
        /\ NewRows(hist.disk0.succeeded, succFile)
             \cup NewRows(hist.disk0.failed, failFile)
             = LoadHandled(handledFile) \ LoadHandled(hist.disk0.handled)

C10_Witness ==
    /\ pc = "done"
    /\ hist.disk0.succeeded # <<>>
    /\ hist.disk0.failed # <<>>
    /\ Len(failFile) > Len(hist.disk0.failed)


\* Without a termination, a completed invocation on artifacts that never
\* changed does leave the cache that C6 describes.
C6_UninterruptedIsExact ==
    (pc = "done" /\ hist.kills = 0) => ExactCache

\* The failures of the external service that C11 lists: an exception of
\* the request or of the decoding, a last response that is not a success,
\* a decoded summary without a Status line.
LookupFailed ==
    \/ lkExc # "none"
    \/ lkResp.status # StatusOk
    \/ (lkKind = "bbs" /\ lkResp.body = "no status line")

\* C11: no exception leaves a lookup, and a lookup that met a failure of
\* the external service returns the no-annotation value (archival lookup)
\* or "Not Found" (build-status lookup).
C11_FailuresGiveSentinel ==
    /\ lkPc # "propagated"
    /\ (lkPc = "done" /\ LookupFailed) =>
           lkResult = (IF lkKind = "cran" THEN "None" ELSE "Not Found")

C11_Witness ==
    /\ lkPc = "done"
    /\ lkExc = "decode"
    /\ lkKind = "bbs"
    /\ lkRequests > 1

\* A list of reasons without the archival annotations in it.
WithoutAnnotations(rs) == SelectSeq(rs, LAMBDA r : r.kind # "cran")

\* C12 as stated: two calls of the classifier on the same log text return
\* the same ordered list of reasons, whatever the registry answers during
\* each of them.
C12_SameListWhateverAnswers ==
    clPc = "twice" => clReasons = clReasons2

\* C12, amended: two calls on the same log text return the same ordered
\* list apart from the archival annotations, and the very same list exactly
\* when the archival lookups answered the same in both calls.
C12_SameListUpToAnnotations ==
    clPc = "twice" =>
        /\ WithoutAnnotations(clReasons) = WithoutAnnotations(clReasons2)
        /\ (clReasons = clReasons2) <=> (clAnswers = clAnswers2)

C12_Witness ==
    /\ clPc = "twice"
    /\ clAnswers # clAnswers2
    /\ Len(clReasons) # Len(clReasons2)
    /\ Len(WithoutAnnotations(clReasons)) > 1

\* C13: the classifier never returns an empty list, and on a log text in
\* which no rule matches and no line contains a fallback keyword (the empty
\* text included) it returns the single reason "Build failed with unknown
\* error".
C13_NeverEmpty ==
    clPc # "idle" =>
        /\ Len(clReasons) >= 1
        /\ (\A i \in 1..Len(clLog) : clLog[i].rule = 0 /\ ~clLog[i].kw)
              => clReasons = <<UnknownError>>

C13_Witness ==
    /\ clPc = "once"
    /\ Len(clLog) = MaxLogLen
    /\ clReasons = <<UnknownError>>

\* The captured texts of the entries of a sequence that belong to one rule.
CapsOfRule(rule, s) ==
    LET own == SelectSeq(s, LAMBDA e : e.rule = rule)
    IN  [i \in 1..Len(own) |-> own[i].cap]

\* C14: every match of every rule yields a reason (no rule is skipped
\* after another one matched), the reasons of an earlier rule precede those
\* of a later rule, and the reasons of one rule are in the order of their
\* matches in the log text.
C14_RuleOrder ==
    clPc # "idle" =>
        LET rs == SelectSeq(clReasons, LAMBDA r : r.kind = "rule")
        IN  /\ \A rule \in 1..9 :
                  CapsOfRule(rule, rs) = CapsOfRule(rule, clLog)
            /\ \A i, j \in 1..Len(rs) : i < j => rs[i].rule <= rs[j].rule

C14_Witness ==
    /\ clPc = "once"
    /\ Len(clLog) = 3
    /\ clLog[1].rule = 9
    /\ clLog[2].rule = 3
    /\ clLog[3].rule = 3
    /\ clLog[2].cap # clLog[3].cap
    /\ Len(clReasons) >= 3

\* The reasons of rs[1..i] that belong to a rule whose category names a
\* dependency or a package ("Missing R dependency", "Missing dependency",
\* "Package not found").
PackageReasonsUpTo(rs, i) ==
    {k \in 1..i : rs[k].kind = "rule" /\ rs[k].rule \in {1, 2, 3}}

\* C15: each match of a rule whose category names a dependency or a
\* package makes one call of the archival lookup, for the matched name; the
\* annotation follows that match's reason directly if and only if the
\* lookup returned one; no other reason makes a call or gets an annotation.
C15_AnnotationAfterItsMatch ==
    clPc # "idle" =>
        /\ Len(clCalls) =
             Cardinality({i \in 1..Len(clLog) : clLog[i].rule \in {1, 2, 3}})
        /\ Len(clCalls) =
             Cardinality(PackageReasonsUpTo(clReasons, Len(clReasons)))
        /\ \A i \in 1..Len(clReasons) :
              LET r == clReasons[i]
                  n == Cardinality(PackageReasonsUpTo(clReasons, i))
              IN  /\ (r.kind = "rule" /\ r.rule \in {1, 2, 3}) =>
                        /\ clCalls[n] = r.cap
                        /\ (clAnswers[n] # "None") <=>
                             /\ i < Len(clReasons)
                             /\ clReasons[i + 1] =
                                  [kind |-> "cran", rule |-> 0,
                                   cap |-> r.cap, note |-> clAnswers[n]]
                  /\ r.kind = "cran" =>
                        /\ i > 1
                        /\ clReasons[i - 1].kind = "rule"
                        /\ clReasons[i - 1].rule \in {1, 2, 3}

C15_Witness ==
    /\ clPc = "once"
    /\ Len(clCalls) = 2
    /\ clAnswers[1] = "None"
    /\ clAnswers[2] = "removed on"
    /\ \E i \in 1..Len(clLog) : clLog[i].rule = 4
    /\ Len(clReasons) = 4

\* The lines of the classified text that contain a fallback keyword, and
\* the first of them.
KeywordLines == {i \in 1..Len(clLog) : clLog[i].kw}

FirstKeyword == CHOOSE i \in KeywordLines : \A k \in KeywordLines : i <= k

NoRuleMatched == \A i \in 1..Len(clLog) : clLog[i].rule = 0

\* C16 as stated: a fallback reason is returned only when no rule matched;
\* then, if a line contains a keyword, the result is one reason equal to
\* the first such line, and no registry lookup was made.
C16_FirstKeywordLineItself ==
    clPc # "idle" =>
        /\ (\E i \in 1..Len(clReasons) : clReasons[i].kind = "line")
              => NoRuleMatched
        /\ (NoRuleMatched /\ KeywordLines # {}) =>
              /\ clReasons = <<[kind |-> "line", rule |-> 0,
                                cap |-> clLog[FirstKeyword].cap,
                                note |-> "-"]>>
              /\ clCalls = <<>>

\* C16, amended: the one reason is the first keyword line without its
\* leading and trailing whitespace.
C16_FirstKeywordLineStripped ==
    clPc # "idle" =>
        /\ (\E i \in 1..Len(clReasons) : clReasons[i].kind = "line")
              => NoRuleMatched
        /\ (NoRuleMatched /\ KeywordLines # {}) =>
              /\ clReasons = <<[kind |-> "line", rule |-> 0,
                                cap |-> strip(clLog[FirstKeyword].cap),
                                note |-> "-"]>>
              /\ clCalls = <<>>

C16_Witness ==
    /\ clPc = "once"
    /\ NoRuleMatched
    /\ Cardinality(KeywordLines) = 2
    /\ FirstKeyword = 2
    /\ clLog[2].cap = Padded(0)
    /\ clLog[3].cap = 1
    /\ Len(clReasons) = 1

\* C17: after a completed pass every row of the succeeded and failed
\* tables belongs to a package of the manifest, and the sizes of the three
\* tables add up to the size of the manifest.
C17_ManifestRowsOnly ==
    pc = "done" =>
        /\ \A i \in 1..Len(tables.succeeded) :
              tables.succeeded[i].pkg \in Manifest
        /\ \A i \in 1..Len(tables.failed) : tables.failed[i].pkg \in Manifest
        /\ Len(tables.succeeded) + Len(tables.failed)
             + Len(tables.unprocessed) = Cardinality(Manifest)

\* C18: when a pass has saved its cache, every package that is in the
\* success list or has a failure log is in the handled set and has a row;
\* in the final tables a manifest package is unprocessed if and only if it
\* is not in the handled set.
C18_NoWorkLeft ==
    /\ pc = "tables" =>
          \A p \in successLog \cup FailedSet :
              /\ p \in LoadHandled(handledFile)
              /\ RowsOf(p, cache.succeeded) + RowsOf(p, cache.failed) >= 1
              /\ RowsOf(p, succFile) + RowsOf(p, failFile) >= 1
    /\ pc = "done" =>
          \A p \in Manifest :
              RowsOf(p, tables.unprocessed) = 1
                <=> p \notin LoadHandled(handledFile)

C18_Witness ==
    /\ pc = "tables"
    /\ successLog # {}
    /\ FailedSet \ successLog # {}
    /\ hist.handled0 # {}
    /\ hist.processed # {}

\* C19: a new package that is in the success list and has a failure log is
\* processed as succeeded: the pass adds one row for it, with status
\* Built, to the succeeded list, adds no row to the failed list and does
\* not call the classifier for it.
C19_SucceededWins ==
    pc \notin Stopped =>
        \A p \in hist.processed :
            (p \in successLog /\ p \in FailedSet) =>
                /\ RowsOf(p, hist.disk0.succeeded) = 0
                /\ RowsOf(p, cache.succeeded) = 1
                /\ \A i \in 1..Len(cache.succeeded) :
                      cache.succeeded[i].pkg = p
                        => cache.succeeded[i].status = "Built"
                /\ RowsOf(p, cache.failed) = 0
                /\ \A c \in hist.calls :
                      ~(c.fn = "check_failure_reason" /\ c.for = p)

C19_Witness ==
    /\ pc = "tables"
    /\ \E p \in hist.processed \cap Manifest :
         /\ p \in successLog
         /\ failLogs[p].state = "ok"
         /\ failLogs[p].text # <<>>
    /\ cache.failed # <<>>

\* C20: every call of a lookup eventually returns, whatever the service
\* answers; it issues no request after a success response, and none after
\* an exception (the call is over once one was raised).
C20_EveryLookupReturns ==
    /\ (lkPc = "loop") ~> (lkPc = "done")
    /\ [][(lkPc = "loop" /\ lkResp.status = 200) =>
             lkRequests' = lkRequests]_vars
    /\ [](lkExc # "none" => lkPc = "done")

C20_Witness ==
    /\ lkPc = "done"
    /\ lkExc = "none"
    /\ lkResp.status = 503
    /\ lkRequests > 6

====
